---- MODULE Spec2Model ----
(***************************************************************************)
(* Model of the Visual Studio 2010/11 backend of Bakefile                  *)
(* (src/bkl/plugins/vs2010.py): the toolset's generate() run over the      *)
(* modules and targets of a build model, the VS2010Solution tree it        *)
(* assembles, the additional-dependency closure, GUID resolution and the   *)
(* solution file written by commit().                                      *)
(*                                                                         *)
(* Modules are numbered 1..NMod in the order of project.modules; module 1  *)
(* is project.top_module and every other module is a submodule of an       *)
(* earlier one.  Targets are named 1..NT; a module's targets are iterated  *)
(* in ascending name order (module.targets is an ordered dictionary).      *)
(***************************************************************************)
EXTENDS Integers, Sequences, FiniteSets, TLC

\* ------------------------------------------------------------------ bounds
NMod == 3          \* number of modules in the build model
NT == 3            \* number of targets in the build model
MaxEdges == 2      \* total number of declared dependencies in the model
MaxOther == 1      \* number of targets whose type is not exe/library/dll

MaxNodes == 2       \* Node objects constructed in one run of the tree builder
MaxAdds == 3        \* add() calls in one run of the tree builder

MaxPasses == 2      \* times normalize() is applied to one value

Modules == 1..NMod
Targets == 1..NT

\* ------------------------------------------------------------------ state
VARIABLES
    toolset,          \* the running toolset: "vs2010" or "vs11"
    tree,             \* input model: tree[m] = module whose submodules list holds m (0: top)
    owner,            \* input model: owner[t] = module whose targets hold t
    pc,               \* position in generate(): "gen", "attach", "commit", "done", "failed"
    mi,               \* index of the module the current loop of generate() is at
    ti,               \* "gen": number of targets of module mi already processed
                      \* "attach": number of submodules of module mi already attached
    created,          \* created[m]: module.solution exists
    projects,         \* VS2010Solution.projects
    guids_map,        \* VS2010Solution.guids_map, a function from its keys to GUIDs
    subsolutions,     \* VS2010Solution.subsolutions
    parent_solution,  \* VS2010Solution.parent_solution (0: None)
    omit_from_tree,   \* VS2010Solution.omit_from_tree ("unset" before commit() sets it)
    out,              \* lines written into the solution's OutputFile buffer
    finalized,        \* OutputFile.commit() was called for the solution
    commits,          \* number of times commit() was invoked on the solution
    files,            \* project and filters files committed to storage
    prj_version,      \* prj.version of the project generated for a target (0: none)
    warnings,         \* warnings emitted, in order
    error,            \* exception that ended the run ("none" while running)
    generate_solution,\* m["<toolset>.generate-solution"] as read by generate() ("unread" before)
    cpc,              \* position in a method called on the assembled tree: "idle",
                      \* "closure", "returned", "TypeError", "resolved"
    cself,            \* the solution the method was called on (0: none)
    guid_call,        \* <<self, id, value>> of the last _get_target_guid call
    included,         \* additional_deps(): local set "included"
    todo,             \* additional_deps(): local set "todo"
    additional,       \* additional_deps(): local list "additional"
    prev_count,       \* additional_deps(): local "prev_count"
    nodes,            \* the Node objects constructed so far, in order of construction
    adds,             \* number of add() calls made so far
    add_error,        \* the last add() call failed its final assertion
    xml,              \* result of the last XmlFormatter.format() call
    vtype,            \* the Type object in use: its name, below "list" its item_type
    allowed,          \* EnumType.allowed_values of the enum type in use
    value,            \* the expression at hand
    prev_value,       \* the expression the last normalize() call was given
    passes,           \* number of normalize() calls made
    verdict,          \* outcome of validate() on the expression at hand
    prev_verdict      \* outcome of validate() on prev_value

solutionVars == <<created, projects, guids_map, subsolutions, parent_solution,
                  omit_from_tree, out, finalized, commits>>
closureVars == <<cpc, cself, guid_call, included, todo, additional, prev_count>>
treeVars == <<nodes, adds, add_error, xml>>
typeVars == <<vtype, allowed, value, prev_value, passes, verdict, prev_verdict>>
vars == <<toolset, tree, owner, pc, mi, ti, solutionVars, files, prj_version, warnings, error,
          generate_solution, closureVars, treeVars, typeVars>>

\* ---------------------------------------------------------------- helpers
Range(s) == {s[i] : i \in 1..Len(s)}

\* Ascending sequence of the elements of a finite set of integers.
RECURSIVE SortedSeq(_)
SortedSeq(S) ==
    IF S = {} THEN <<>>
    ELSE LET x == CHOOSE y \in S : \A z \in S : y <= z
         IN  <<x>> \o SortedSeq(S \ {x})

\* All orders in which a set can be iterated.
Orders(S) ==
    {f \in [1..Cardinality(S) -> S] : \A i, j \in 1..Cardinality(S) : f[i] = f[j] => i = j}

RECURSIVE SumLens(_, _)
SumLens(f, S) ==
    IF S = {} THEN 0
    ELSE LET x == CHOOSE y \in S : TRUE
         IN  Len(f[x]) + SumLens(f, S \ {x})

\* ------------------------------------------------------------ input model
\* m.submodules, in order
Submodules(m) == SortedSeq({c \in Modules : tree[c] = m})

\* module.targets, in order
TargetsOf(m) == SortedSeq({t \in Targets : owner[t] = m})

TargetTypes == {"exe", "library", "dll", "other"}

\* Values of target["deps"]: lists of target names
DepLists == {SortedSeq(S) : S \in {D \in SUBSET Targets : Cardinality(D) <= MaxEdges}}

\* ----------------------------------------------------------------- GUIDs
GuidOfProject(m, t) == <<"NAMESPACE_PROJECT", m, t>>
GuidOfSolution(m) == <<"NAMESPACE_SLN_GROUP", 1, m>>
GuidOfExtras(m) == <<"NAMESPACE_INTERNAL", m, 0>>

\* ------------------------------------------------------------- toolsets
ProjVersions(ts) == IF ts = "vs2010" THEN <<10>> ELSE <<10, 11>>
ProjectVersion(ts) == IF ts = "vs2010" THEN 10 ELSE 11

\* ------------------------------------------------------ project records
\* The tuple (prj.name, prj.guid, prj.projectfile, prj.dependencies) stored by add_project
ProjectRecord(n, g, f, d) == [name |-> n, guid |-> g, projectfile |-> f, deps |-> d]

NoGuid == <<"None", 0, 0>>
AssertionFailed == <<"AssertionError", 0, 0>>
\* Python's None where a project record is expected
NoProject == ProjectRecord(0, NoGuid, <<"None", 0>>, <<>>)

\* --------------------------------------------- VS2010Solution, read-only
RECURSIVE AllProjects(_)
RECURSIVE AllProjectsOfList(_, _)
AllProjectsOfList(slns, i) ==
    IF i > Len(slns) THEN <<>>
    ELSE AllProjects(slns[i]) \o AllProjectsOfList(slns, i + 1)

AllProjects(s) == projects[s] \o AllProjectsOfList(subsolutions[s], 1)

RECURSIVE AllSubsolutions(_)
RECURSIVE AllSubsolutionsOfList(_, _)
AllSubsolutionsOfList(slns, i) ==
    IF i > Len(slns) THEN <<>>
    ELSE <<slns[i]>> \o AllSubsolutions(slns[i]) \o AllSubsolutionsOfList(slns, i + 1)

AllSubsolutions(s) == AllSubsolutionsOfList(subsolutions[s], 1)

RECURSIVE GetProjectInfo(_, _)
RECURSIVE GetProjectInfoInList(_, _, _)
GetProjectInfoInList(slns, i, id) ==
    IF i > Len(slns) THEN NoProject
    ELSE LET p == GetProjectInfo(slns[i], id)
         IN  IF p # NoProject THEN p ELSE GetProjectInfoInList(slns, i + 1, id)

GetProjectInfo(s, id) ==
    IF \E i \in 1..Len(projects[s]) : projects[s][i].name = id
    THEN projects[s][CHOOSE i \in 1..Len(projects[s]) :
                        /\ projects[s][i].name = id
                        /\ \A j \in 1..(i - 1) : projects[s][j].name # id]
    ELSE GetProjectInfoInList(subsolutions[s], 1, id)

\* "while top.parent_solution: top = top.parent_solution"
RECURSIVE TopOf(_)
TopOf(s) == IF parent_solution[s] # 0 THEN TopOf(parent_solution[s]) ELSE s

RECURSIVE FindTargetGuidRecursively(_, _)
RECURSIVE FindTargetGuidInList(_, _, _)
FindTargetGuidInList(slns, i, id) ==
    IF i > Len(slns) THEN NoGuid
    ELSE LET guid == FindTargetGuidRecursively(slns[i], id)
         IN  IF guid # NoGuid THEN guid ELSE FindTargetGuidInList(slns, i + 1, id)

FindTargetGuidRecursively(s, id) ==
    IF id \in DOMAIN guids_map[s] THEN guids_map[s][id]
    ELSE FindTargetGuidInList(subsolutions[s], 1, id)

\* Variant: the search starts at the solution itself, not at its top-most ancestor
GetTargetGuid_FromSelf(s, id) ==
    IF id \in DOMAIN guids_map[s] THEN guids_map[s][id]
    ELSE LET guid == FindTargetGuidRecursively(s, id)
         IN  IF guid # NoGuid THEN guid ELSE AssertionFailed

GetTargetGuid(s, id) ==
    IF id \in DOMAIN guids_map[s] THEN guids_map[s][id]
    ELSE LET guid == FindTargetGuidRecursively(TopOf(s), id)
         IN  IF guid # NoGuid THEN guid ELSE AssertionFailed

\* ------------------------------------------------------ additional_deps
\* Names of all_projects() and the union of their deps (lines 224-227)
ClosureIncluded(s) == {AllProjects(s)[i].name : i \in 1..Len(AllProjects(s))}
ClosureTodo(s) == UNION {Range(AllProjects(s)[i].deps) : i \in 1..Len(AllProjects(s))}

\* The "for todo_item in todo" loop of one pass over the names ord[i..], from the
\* accumulated st = [included, todo_new, additional, ok]; ok turns FALSE where
\* prj is None and prj[3] raises TypeError.
RECURSIVE PassItems(_, _, _, _)
PassItems(top, ord, i, st) ==
    IF i > Len(ord) \/ ~st.ok THEN st
    ELSE LET prj == GetProjectInfo(top, ord[i])
         IN  IF prj = NoProject
             THEN [st EXCEPT !.included = @ \cup {ord[i]}, !.ok = FALSE]
             ELSE PassItems(top, ord, i + 1,
                            [included |-> st.included \cup {ord[i]},
                             todo_new |-> st.todo_new \cup Range(prj.deps),
                             additional |-> Append(st.additional, prj),
                             ok |-> TRUE])

\* Variant: the dependencies of the projects found in a pass are not carried
\* over to the next pass
ClosurePassResult_DropsNew(top, inc, td, add, ord) ==
    LET r == PassItems(top, ord, 1,
                       [included |-> inc, todo_new |-> {}, additional |-> add, ok |-> TRUE])
    IN  [included |-> r.included,
         todo |-> td \ inc,
         additional |-> r.additional,
         ok |-> r.ok]

\* One pass of the while loop (lines 231-239), iterating the filtered todo set in
\* the order ord. A pass that raises at line 237 does not come to line 239, and
\* todo stays the filtered set of line 232.
ClosurePassResult(top, inc, td, add, ord) ==
    LET r == PassItems(top, ord, 1,
                       [included |-> inc, todo_new |-> {}, additional |-> add, ok |-> TRUE])
    IN  [included |-> r.included,
         todo |-> IF r.ok THEN (td \ inc) \cup r.todo_new ELSE td \ inc,
         additional |-> r.additional,
         ok |-> r.ok]

\* ------------------------------------------------ lines of a solution file
NoName == <<"", 0>>
NoFile == <<"", 0>>
Line(k, n, f, g, par) == [k |-> k, name |-> n, file |-> f, guid |-> g, parent |-> par]
Plain(k) == Line(k, NoName, NoFile, NoGuid, NoGuid)

FormatVersion(ts) == IF ts = "vs2010" THEN "11.00" ELSE "12.00"
HumanVersion(ts) == IF ts = "vs2010" THEN "2010" ELSE "11"

\* write_header()
HeaderLines(ts) ==
    << Plain("BOM_UTF8"), Plain(""),
       Line("Format Version", <<FormatVersion(ts), 0>>, NoFile, NoGuid, NoGuid),
       Line("# Visual Studio", <<HumanVersion(ts), 0>>, NoFile, NoGuid, NoGuid) >>

RECURSIVE ConcatAll(_, _)
ConcatAll(seqs, i) == IF i > Len(seqs) THEN <<>> ELSE seqs[i] \o ConcatAll(seqs, i + 1)

\* The "for d in deps" loop (lines 273-274); stops where _get_target_guid asserts.
RECURSIVE WriteDeps(_, _, _)
WriteDeps(s, deps, i) ==
    IF i > Len(deps) THEN [lines |-> <<>>, ok |-> TRUE]
    ELSE LET g == GetTargetGuid(s, deps[i])
         IN  IF g = AssertionFailed THEN [lines |-> <<>>, ok |-> FALSE]
             ELSE LET rest == WriteDeps(s, deps, i + 1)
                  IN  [lines |-> <<Line("Dep", NoName, NoFile, g, NoGuid)>> \o rest.lines,
                       ok |-> rest.ok]

\* One project entry (lines 268-276)
WriteProject(s, prj) ==
    LET head == <<Line("Project", <<"target", prj.name>>, prj.projectfile, prj.guid, NoGuid)>>
    IN  IF prj.deps = <<>>
        THEN [lines |-> head \o <<Plain("EndProject")>>, ok |-> TRUE]
        ELSE LET d == WriteDeps(s, prj.deps, 1)
             IN  IF d.ok
                 THEN [lines |-> head \o <<Plain("ProjectSection(ProjectDependencies)")>>
                                  \o d.lines
                                  \o <<Plain("EndProjectSection"), Plain("EndProject")>>,
                       ok |-> TRUE]
                 ELSE [lines |-> head \o <<Plain("ProjectSection(ProjectDependencies)")>>
                                  \o d.lines,
                       ok |-> FALSE]

\* The projects loop (lines 267-276) from entry i on
RECURSIVE WriteProjects(_, _, _)
WriteProjects(s, prjs, i) ==
    IF i > Len(prjs) THEN [lines |-> <<>>, guids |-> <<>>, ok |-> TRUE]
    ELSE LET one == WriteProject(s, prjs[i])
         IN  IF ~one.ok THEN [lines |-> one.lines, guids |-> <<prjs[i].guid>>, ok |-> FALSE]
             ELSE LET rest == WriteProjects(s, prjs, i + 1)
                  IN  [lines |-> one.lines \o rest.lines,
                       guids |-> <<prjs[i].guid>> \o rest.guids,
                       ok |-> rest.ok]

\* A folder of the solution tree: a nested solution, or the synthetic
\* AdditionalDepsFolder (id 0) of lines 284-291
SolutionFolder(m) ==
    [id |-> m, name |-> <<"module", m>>, guid |-> GuidOfSolution(m),
     projects |-> projects[m], subsolutions |-> subsolutions[m],
     parent_solution |-> parent_solution[m]]

ExtrasFolder(s, add) ==
    [id |-> 0, name |-> <<"Additional Dependencies", 0>>, guid |-> GuidOfExtras(s),
     projects |-> add, subsolutions |-> <<>>, parent_solution |-> 0]

\* Variant: no synthetic folder for the additional dependencies
AllFolders_NoExtras(s, add) ==
    [i \in 1..Len(AllSubsolutions(s)) |-> SolutionFolder(AllSubsolutions(s)[i])]

AllFolders(s, add) ==
    [i \in 1..Len(AllSubsolutions(s)) |-> SolutionFolder(AllSubsolutions(s)[i])]
    \o (IF add # <<>> THEN <<ExtrasFolder(s, add)>> ELSE <<>>)

\* Variant: a folder is folded whether or not it has a parent solution
OmitFromTree_IgnoresParent(f) == Len(f.projects) + Len(f.subsolutions) <= 1

\* sln.omit_from_tree (lines 294-295)
OmitFromTree(f) ==
    f.parent_solution # 0 /\ Len(f.projects) + Len(f.subsolutions) <= 1

\* Folder entries (lines 292-300)
FolderLines(folders) ==
    ConcatAll([i \in 1..Len(folders) |->
                 IF OmitFromTree(folders[i]) THEN <<>>
                 ELSE <<Line("Folder", folders[i].name, NoFile, folders[i].guid, NoGuid),
                        Plain("EndProject")>>], 1)

\* Global settings (lines 303-317)
ConfigLines(guids) ==
    ConcatAll([i \in 1..Len(guids) |->
                 <<Line("Debug|Win32.ActiveCfg", NoName, NoFile, guids[i], NoGuid),
                   Line("Debug|Win32.Build.0", NoName, NoFile, guids[i], NoGuid),
                   Line("Release|Win32.ActiveCfg", NoName, NoFile, guids[i], NoGuid),
                   Line("Release|Win32.Build.0", NoName, NoFile, guids[i], NoGuid)>>], 1)

GlobalLines(guids) ==
    << Plain("Global"),
       Plain("GlobalSection(SolutionConfigurationPlatforms)"),
       Plain("Debug|Win32 = Debug|Win32"),
       Plain("Release|Win32 = Release|Win32"),
       Plain("EndGlobalSection"),
       Plain("GlobalSection(ProjectConfigurationPlatforms)") >>
    \o ConfigLines(guids)
    \o << Plain("EndGlobalSection"),
          Plain("GlobalSection(SolutionProperties)"),
          Plain("HideSolutionNode = FALSE"),
          Plain("EndGlobalSection") >>

\* Nesting lines of one folder (lines 323-328)
NestedLinesOf(f) ==
    [i \in 1..Len(f.projects) |->
        Line("Nested", NoName, NoFile, f.projects[i].guid,
             IF ~OmitFromTree(f) THEN f.guid ELSE GuidOfSolution(f.parent_solution))]
    \o [i \in 1..Len(f.subsolutions) |->
        Line("Nested", NoName, NoFile, GuidOfSolution(f.subsolutions[i]), f.guid)]

\* Nesting of projects and folders (lines 320-329)
NestedSection(folders) ==
    IF folders = <<>> THEN <<>>
    ELSE <<Plain("GlobalSection(NestedProjects)")>>
         \o ConcatAll([i \in 1..Len(folders) |-> NestedLinesOf(folders[i])], 1)
         \o <<Plain("EndGlobalSection")>>

\* Variant: the test for an empty solution (line 278) is missing
CommitResult_WritesEmpty(s, add) ==
    LET pe == WriteProjects(s, AllProjects(s) \o add, 1)
        folders == AllFolders(s, add)
    IN  IF ~pe.ok
        THEN [lines |-> pe.lines, finalized |-> FALSE, status |-> "AssertionError",
              folders |-> <<>>]
        ELSE [lines |-> pe.lines \o FolderLines(folders) \o GlobalLines(pe.guids)
                        \o NestedSection(folders) \o <<Plain("EndGlobal")>>,
              finalized |-> TRUE, status |-> "ok", folders |-> folders]

\* commit() of solution s once additional_deps() has returned add: the lines
\* written, whether the OutputFile was committed, the exception raised if any,
\* and the solutions whose omit_from_tree was assigned.
CommitResult(s, add) ==
    LET pe == WriteProjects(s, AllProjects(s) \o add, 1)
        folders == AllFolders(s, add)
    IN  IF ~pe.ok
        THEN [lines |-> pe.lines, finalized |-> FALSE, status |-> "AssertionError",
              folders |-> <<>>]
        ELSE IF pe.guids = <<>>
        THEN [lines |-> pe.lines, finalized |-> FALSE, status |-> "ok", folders |-> <<>>]
        ELSE [lines |-> pe.lines \o FolderLines(folders) \o GlobalLines(pe.guids)
                        \o NestedSection(folders) \o <<Plain("EndGlobal")>>,
              finalized |-> TRUE, status |-> "ok", folders |-> folders]

\* ------------------------------------------------- Node and XmlFormatter
\* Strings the serializer looks into are sequences of characters.
TrueChars == <<"t", "r", "u", "e">>
FalseChars == <<"f", "a", "l", "s", "e">>

\* Values a child of the form add(tag, value) can carry: a string, a boolean,
\* a list of such values
StrVal(s) == [kind |-> "str", s |-> s, b |-> FALSE, items |-> <<>>]
BoolVal(b) == [kind |-> "bool", s |-> <<>>, b |-> b, items |-> <<>>]
ListVal(items) == [kind |-> "list", s |-> <<>>, b |-> FALSE, items |-> items]

ScalarValues ==
    {StrVal(<<>>), StrVal(<<"&">>), BoolVal(FALSE),
     ListVal(<<StrVal(<<>>), StrVal(<<>>)>>)}

\* Node.text: None or a string
NoText == [some |-> FALSE, s |-> <<>>]
Text(s) == [some |-> TRUE, s |-> s]
Texts == {NoText, Text(<<"t">>)}

\* Python truth value of Node.text as tested by "if n.text" (lines 119, 133)
Truthy(text) == text.some /\ text.s # <<>>

Tags == {"a", "b"}

\* Keyword arguments of Node(name, **kwargs) that become attributes
AttrSets == {<<>>, <<[key |-> "Label", value |-> StrVal(<<"&">>)]>>}

\* Keys and values of the assignments n[key] = value
AttrKeys == {"Label"}
AttrValues == {StrVal(<<"&">>), StrVal(<<"v">>)}

\* OrderedDict.__setitem__ as called by Node.__setitem__ (lines 48-49): the
\* value of a key the mapping has is replaced where it stands, a new key goes
\* to the end
SetAttr(attrs, key, val) ==
    IF \E i \in 1..Len(attrs) : attrs[i].key = key
    THEN [i \in 1..Len(attrs) |-> IF attrs[i].key = key
                                  THEN [key |-> key, value |-> val] ELSE attrs[i]]
    ELSE Append(attrs, [key |-> key, value |-> val])

\* Node.__init__ (lines 41-46)
NewNodeObject(name, text, kwargs) ==
    [name |-> name, text |-> text, attrs |-> kwargs, children |-> <<>>]

\* An entry of Node.children: (tag, Node) or (tag, value)
NodeChild(tag, n) == [tag |-> tag, isNode |-> TRUE, node |-> n, value |-> StrVal(<<>>)]
LeafChild(tag, v) == [tag |-> tag, isNode |-> FALSE, node |-> 0, value |-> v]

\* Node.has_children (lines 84-85)
HasChildren(n) == Len(n.children) > 0

\* _format_value (lines 139-148)
RECURSIVE FormatValue(_)
RECURSIVE JoinValues(_, _)
FormatValue(val) ==
    IF val.kind = "bool" THEN (IF val.b THEN TrueChars ELSE FalseChars)
    ELSE IF val.kind = "list" THEN JoinValues(val.items, 1)
    ELSE val.s

\* ";".join(self._format_value(x) for x in val) (line 145)
JoinValues(items, i) ==
    IF i > Len(items) THEN <<>>
    ELSE FormatValue(items[i]) \o (IF i < Len(items) THEN <<";">> ELSE <<>>)
            \o JoinValues(items, i + 1)

\* xml.sax.saxutils.escape as called at line 127
EscapeChar(c) ==
    IF c = "&" THEN <<"&", "a", "m", "p", ";">>
    ELSE IF c = "<" THEN <<"&", "l", "t", ";">>
    ELSE IF c = ">" THEN <<"&", "g", "t", ";">>
    ELSE <<c>>

Escape(s) == ConcatAll([i \in 1..Len(s) |-> EscapeChar(s[i])], 1)

\* xml.sax.saxutils.quoteattr as called at line 117: escape, with newline,
\* carriage return and tab written as character references
QuoteAttrChar(c) ==
    IF c = "\n" THEN <<"&", "#", "1", "0", ";">>
    ELSE IF c = "\r" THEN <<"&", "#", "1", "3", ";">>
    ELSE IF c = "\t" THEN <<"&", "#", "9", ";">>
    ELSE EscapeChar(c)

\* data.replace('"', "&quot;")
QuotChar(c) == IF c = "\"" THEN <<"&", "q", "u", "o", "t", ";">> ELSE <<c>>

\* The escaped value goes between double quotes; a value with a double quote
\* goes between single quotes, unless it has a single quote too, and then between
\* double quotes with its double quotes written as &quot;
QuoteAttr(s) ==
    LET data == ConcatAll([i \in 1..Len(s) |-> QuoteAttrChar(s[i])], 1)
        has(c) == \E i \in 1..Len(data) : data[i] = c
    IN  IF has("\"")
        THEN IF has("'")
             THEN <<"\"">> \o ConcatAll([i \in 1..Len(data) |-> QuotChar(data[i])], 1)
                         \o <<"\"">>
             ELSE <<"'">> \o data \o <<"'">>
        ELSE <<"\"">> \o data \o <<"\"">>

\* The attributes of a node as written at lines 116-117
FormatAttrs(attrs) ==
    [i \in 1..Len(attrs) |-> [key |-> attrs[i].key,
                              value |-> QuoteAttr(FormatValue(attrs[i].value))]]

\* A line of the serializer's output: "open" is <name attrs>, "close" is
\* </name>, "leaf" is <name>text</name> of a scalar child, "text" is
\* <name attrs>text</name>, "empty" is <name attrs />
XmlLine(indent, form, name, attrs, text) ==
    [indent |-> indent, form |-> form, name |-> name, attrs |-> attrs, text |-> text]

\* Variant: a scalar child is written whatever its value
LeafLines_KeepsEmpty(c, indent) ==
    <<XmlLine(indent, "leaf", c.tag, <<>>, Escape(FormatValue(c.value)))>>

\* Lines 126-130 of _format_node: the line of a scalar child
LeafLines(c, indent) ==
    LET v == Escape(FormatValue(c.value))
    IN  IF v # <<>> THEN <<XmlLine(indent, "leaf", c.tag, <<>>, v)>> ELSE <<>>

\* The call raised the exception err
Raised(err) == [ok |-> FALSE, err |-> err, lines |-> <<>>]
Written(lines) == [ok |-> TRUE, err |-> "none", lines |-> lines]

\* _format_node (lines 114-137) on node n of the node store ns; ok is FALSE
\* when it raises. indent counts the nested calls: a call nested deeper than
\* the store has nodes is on a node that is its own descendant, the calls
\* repeat from there and end at the interpreter's recursion limit.
RECURSIVE FormatNode(_, _, _)
RECURSIVE FormatChildren(_, _, _, _)
FormatNode(ns, n, indent) ==
    IF indent >= Len(ns) THEN Raised("RuntimeError")
    ELSE IF HasChildren(ns[n])
    THEN IF Truthy(ns[n].text)
         THEN Raised("AssertionError")
         ELSE LET body == FormatChildren(ns, n, 1, indent + 1)
              IN  IF ~body.ok THEN body
                  ELSE Written(<<XmlLine(indent, "open", ns[n].name,
                                         FormatAttrs(ns[n].attrs), <<>>)>>
                               \o body.lines
                               \o <<XmlLine(indent, "close", ns[n].name, <<>>, <<>>)>>)
    ELSE IF Truthy(ns[n].text)
    THEN Written(<<XmlLine(indent, "text", ns[n].name,
                           FormatAttrs(ns[n].attrs), ns[n].text.s)>>)
    ELSE Written(<<XmlLine(indent, "empty", ns[n].name,
                           FormatAttrs(ns[n].attrs), <<>>)>>)

\* The loop over n.children (lines 122-130), from child i on
FormatChildren(ns, n, i, indent) ==
    IF i > Len(ns[n].children) THEN Written(<<>>)
    ELSE LET c == ns[n].children[i]
             first == IF c.isNode
                      THEN IF c.tag = ns[c.node].name
                           THEN FormatNode(ns, c.node, indent)
                           ELSE Raised("AssertionError")
                      ELSE Written(LeafLines(c, indent))
         IN  IF ~first.ok THEN first
             ELSE LET rest == FormatChildren(ns, n, i + 1, indent)
                  IN  IF ~rest.ok THEN rest
                      ELSE Written(first.lines \o rest.lines)

\* XmlFormatter.format (lines 111-112): the header, then the root node
FormatTree(ns, root) ==
    LET r == FormatNode(ns, root, 0)
    IN  IF r.ok
        THEN [status |-> "ok", root |-> root,
              lines |-> <<XmlLine(0, "XML_HEADER", "", <<>>, <<>>)>> \o r.lines]
        ELSE [status |-> r.err, root |-> root, lines |-> <<>>]

NoXml == [status |-> "none", root |-> 0, lines |-> <<>>]

\* No Node constructed, no format() call made
NoNodes ==
    /\ nodes = <<>>
    /\ adds = 0
    /\ add_error = FALSE
    /\ xml = NoXml

\* ---------------------------------------------------------------- vartypes
\* Expressions: a literal with its string value (a unicode or a byte string),
\* a list of expressions, a path of components with an anchor, the null
\* expression, and a reference standing for every other expression.
LiteralExpr(v, u) ==
    [kind |-> "LiteralExpr", value |-> v, unicode |-> u, items |-> <<>>, anchor |-> <<>>]
ListExpr(items) ==
    [kind |-> "ListExpr", value |-> <<>>, unicode |-> TRUE, items |-> items, anchor |-> <<>>]
PathExpr(components, anchor) ==
    [kind |-> "PathExpr", value |-> <<>>, unicode |-> TRUE, items |-> components,
     anchor |-> anchor]
NullExpr ==
    [kind |-> "NullExpr", value |-> <<>>, unicode |-> TRUE, items |-> <<>>, anchor |-> <<>>]
ReferenceExpr ==
    [kind |-> "ReferenceExpr", value |-> <<>>, unicode |-> TRUE, items |-> <<>>,
     anchor |-> <<>>]

\* expr.ANCHORS and the anchor PathExpr takes by default
ANCHORS == {<<"@", "s">>, <<"@", "t">>, <<"@", "b">>}
DefaultAnchor == <<"@", "s">>

\* str.split("/") on the characters of s from position i on, cur being the
\* piece collected so far
RECURSIVE SplitChars(_, _, _)
SplitChars(s, i, cur) ==
    IF i > Len(s) THEN <<cur>>
    ELSE IF s[i] = "/" THEN <<cur>> \o SplitChars(s, i + 1, <<>>)
    ELSE SplitChars(s, i + 1, Append(cur, s[i]))

\* expr.split(e, "/") as called at line 134: a literal is split into literals,
\* the null expression has no component, another expression is one component
Split(e) ==
    IF e.kind = "LiteralExpr"
    THEN LET parts == SplitChars(e.value, 1, <<>>)
         IN  [i \in 1..Len(parts) |-> LiteralExpr(parts[i], e.unicode)]
    ELSE IF e.kind = "NullExpr" THEN <<>>
    ELSE <<e>>

\* A Type object is written as the sequence of type names from the outermost
\* list type down to its innermost item_type: <<"list", "list", "path">>
TypeNames == {"any", "bool", "id", "path", "enum"}
ItemType(T) == Tail(T)

\* PathType.normalize (lines 130-143)
NormalizePath(e) ==
    IF e.kind = "PathExpr" THEN e
    ELSE LET components == Split(e)
         IN  IF components = <<>> THEN e
             ELSE IF /\ components[1].kind = "LiteralExpr"
                     /\ components[1].value # <<>>
                     /\ components[1].value[1] = "@"
             THEN PathExpr(Tail(components), components[1].value)
             ELSE PathExpr(components, DefaultAnchor)

\* Variant: a list is wrapped into a list once more
Normalize_WrapsAgain(T, e) ==
    IF T[1] = "list" THEN ListExpr(<<e>>)
    ELSE IF T[1] = "path" THEN NormalizePath(e)
    ELSE e

\* normalize of Type (lines 55-64), PathType and ListType (lines 201-207)
RECURSIVE Normalize(_, _)
Normalize(T, e) ==
    IF T[1] = "list"
    THEN IF e.kind = "ListExpr"
         THEN ListExpr([i \in 1..Len(e.items) |-> Normalize(ItemType(T), e.items[i])])
         ELSE ListExpr(<<Normalize(ItemType(T), e)>>)
    ELSE IF T[1] = "path" THEN NormalizePath(e)
    ELSE e

\* Outcomes of validate
NoMsg == [text |-> "", values |-> <<>>]
Valid == [status |-> "ok", type |-> <<>>, msg |-> NoMsg]
RaiseTypeError(T, msg) == [status |-> "TypeError", type |-> T, msg |-> msg]
RaiseAssertionError(T) == [status |-> "AssertionError", type |-> T, msg |-> NoMsg]
NotValidated == [status |-> "none", type |-> <<>>, msg |-> NoMsg]

\* EnumType.validate (lines 174-183) with allowed_values A
ValidateEnum(T, A, e) ==
    IF e.kind = "LiteralExpr"
    THEN IF ~e.unicode THEN RaiseAssertionError(T)
         ELSE IF e.value \notin Range(A)
         THEN RaiseTypeError(T, [text |-> "must be one of", values |-> A])
         ELSE Valid
    ELSE RaiseTypeError(T, NoMsg)

\* validate of AnyType (83-84), BoolType (97-104), IdType (115-117), PathType
\* (146-152), EnumType and ListType (211-216)
RECURSIVE Validate(_, _, _)
RECURSIVE ValidateItems(_, _, _, _)
Validate(T, A, e) ==
    IF T[1] = "any" THEN Valid
    ELSE IF T[1] = "bool"
    THEN IF e.kind = "LiteralExpr" /\ e.value \in {TrueChars, FalseChars}
         THEN Valid ELSE RaiseTypeError(T, NoMsg)
    ELSE IF T[1] = "id"
    THEN IF e.kind = "LiteralExpr" THEN Valid ELSE RaiseTypeError(T, NoMsg)
    ELSE IF T[1] = "path"
    THEN IF e.kind # "PathExpr" THEN RaiseTypeError(T, NoMsg)
         ELSE IF e.anchor \notin ANCHORS
         THEN RaiseTypeError(T, [text |-> "is not a valid path anchor",
                                 values |-> <<e.anchor>>])
         ELSE Valid
    ELSE IF T[1] = "enum" THEN ValidateEnum(T, A, e)
    ELSE IF e.kind = "ListExpr" THEN ValidateItems(T, A, e.items, 1)
    ELSE RaiseTypeError(T, NoMsg)

\* The loop of ListType.validate (lines 213-214), from item i on
ValidateItems(T, A, items, i) ==
    IF i > Len(items) THEN Valid
    ELSE LET r == Validate(ItemType(T), A, items[i])
         IN  IF r.status # "ok" THEN r ELSE ValidateItems(T, A, items, i + 1)

\* No type in use
NoValue ==
    /\ vtype = <<"any">>
    /\ allowed = <<>>
    /\ value = NullExpr
    /\ prev_value = NullExpr
    /\ passes = 0
    /\ verdict = NotValidated
    /\ prev_verdict = NotValidated

\* ------------------------------------------------------------ generate()
Pos(p, m, k) == [pc |-> p, mi |-> m, ti |-> k]

\* Where the third loop of generate() (lines 427-429) stands after module m
AfterCommit(m) == IF m < NMod THEN Pos("commit", m + 1, 0) ELSE Pos("done", m, 0)

\* Where the second loop of generate() (lines 424-426) stands once k submodules
\* of module m are attached
RECURSIVE AttachPos(_, _)
AttachPos(m, k) ==
    IF m > NMod THEN Pos("commit", 1, 0)
    ELSE IF k < Len(Submodules(m)) THEN Pos("attach", m, k)
    ELSE AttachPos(m + 1, 0)

\* Variant: the submodules are attached as soon as the first module is generated
AfterTarget_AttachEarly(m, k) ==
    IF k < Len(TargetsOf(m)) THEN Pos("gen", m, k)
    ELSE AttachPos(1, 0)

\* Where the first loop of generate() (lines 419-421) stands once k targets of
\* module m are processed
AfterTarget(m, k) ==
    IF k < Len(TargetsOf(m)) THEN Pos("gen", m, k)
    ELSE IF m < NMod THEN Pos("gen", m + 1, 0)
    ELSE AttachPos(1, 0)

Goto(p) == /\ pc' = p.pc
           /\ mi' = p.mi
           /\ ti' = p.ti

\* Variant: the error is recorded and the loop goes on to the next target
Fail_Continues(e) == /\ error' = e
                     /\ Goto(AfterTarget(mi, ti + 1))

Fail(e) == /\ pc' = "failed"
           /\ error' = e
           /\ UNCHANGED <<mi, ti>>

Init ==
    /\ toolset \in {"vs2010", "vs11"}
    /\ tree \in {f \in [Modules -> 0..NMod] :
                    /\ f[1] = 0
                    /\ \A m \in Modules \ {1} : f[m] \in 1..(m - 1)}
    /\ owner \in {f \in [Targets -> Modules] :
                    \A t, u \in Targets : t <= u => f[t] <= f[u]}
    /\ pc = "gen"
    /\ mi = 1
    /\ ti = 0
    /\ created = [m \in Modules |-> FALSE]
    /\ projects = [m \in Modules |-> <<>>]
    /\ guids_map = [m \in Modules |-> <<>>]
    /\ subsolutions = [m \in Modules |-> <<>>]
    /\ parent_solution = [m \in Modules |-> 0]
    /\ omit_from_tree = [m \in Modules |-> "unset"]
    /\ out = [m \in Modules |-> <<>>]
    /\ finalized = [m \in Modules |-> FALSE]
    /\ commits = [m \in Modules |-> 0]
    /\ files = {}
    /\ prj_version = [t \in Targets |-> 0]
    /\ warnings = <<>>
    /\ error = "none"
    /\ generate_solution = [m \in Modules |-> "unread"]
    /\ cpc = "idle"
    /\ cself = 0
    /\ guid_call = <<0, 0, NoGuid>>
    /\ included = {}
    /\ todo = {}
    /\ additional = <<>>
    /\ prev_count = 0
    /\ NoNodes
    /\ NoValue

\* gen_for_module, line 434: module.solution = self.Solution(self, module)
CreateSolution ==
    /\ pc = "gen"
    /\ ~created[mi]
    /\ created' = [created EXCEPT ![mi] = TRUE]
    /\ projects' = [projects EXCEPT ![mi] = <<>>]
    /\ subsolutions' = [subsolutions EXCEPT ![mi] = <<>>]
    /\ parent_solution' = [parent_solution EXCEPT ![mi] = 0]
    /\ guids_map' = [guids_map EXCEPT ![mi] = <<>>]
    /\ out' = [out EXCEPT ![mi] = HeaderLines(toolset)]
    /\ Goto(AfterTarget(mi, 0))
    /\ UNCHANGED <<toolset, tree, owner, treeVars, typeVars,
                   prj_version, omit_from_tree, finalized, commits, files,
                   warnings, error, generate_solution, closureVars>>

\* Targets of modules before mi, and the first k targets of module mi
Processed(m, k) ==
    {t \in Targets : owner[t] < m} \cup {TargetsOf(m)[i] : i \in 1..k}

\* Dependencies declared by the projects generated so far
EdgesUsed == SumLens([m \in Modules |-> ConcatAll([i \in 1..Len(projects[m]) |->
                                                     projects[m][i].deps], 1)], Modules)

\* Targets processed so far whose type is none of exe, library, dll
OthersUsed(m, k) == Cardinality({t \in Processed(m, k) : <<"vcxproj", t>> \notin files})

\* Project file format versions an externally supplied project may carry
ExternalVersions == {9, 10, 11, 12}

\* Variant: the name check is missing
NameDiffers_Unchecked(prjName, targetName) == FALSE

\* The name check of gen_for_module (line 447): TRUE when Error is raised
NameDiffers(prjName, targetName) == prjName # targetName

\* Variant: an unsupported version is never fatal
VersionCheck_NeverFatal(ts, version) ==
    IF version \notin Range(ProjVersions(ts)) THEN "warning" ELSE "ok"

\* The version check of gen_for_module (lines 453-459)
VersionCheck(ts, version) ==
    IF version \notin Range(ProjVersions(ts))
    THEN IF version > ProjVersions(ts)[Len(ProjVersions(ts))] THEN "fatal" ELSE "warning"
    ELSE "ok"

\* add_project (lines 180-183) on solution m
AddProject(m, prj) ==
    /\ guids_map' = [guids_map EXCEPT ![m] = (prj.name :> prj.guid) @@ @]
    /\ projects' = [projects EXCEPT ![m] = Append(@, prj)]

\* Lines 447-460 of gen_for_module for target t of module mi, given the project
\* gen_for_target or the target type's vs_project returned
ValidateAndAdd(t, prj, version) ==
    /\ prj_version' = [prj_version EXCEPT ![t] = version]
    /\ IF NameDiffers(prj.name, t)
       THEN /\ Fail("Error: project name differs from target name")
            /\ UNCHANGED <<guids_map, projects, warnings>>
       ELSE IF VersionCheck(toolset, version) = "fatal"
       THEN /\ Fail("Error: project will not work with this version")
            /\ UNCHANGED <<guids_map, projects, warnings>>
       ELSE /\ warnings' = IF VersionCheck(toolset, version) = "warning"
                           THEN Append(warnings, [w |-> "will be converted when built",
                                                  target |-> t])
                           ELSE warnings
            /\ AddProject(mi, prj)
            /\ Goto(AfterTarget(mi, ti + 1))
            /\ UNCHANGED error

\* gen_for_target (lines 463-685): TRUE when the target type is built natively
IsNative(type) == type \in {"exe", "library", "dll"}

\* One iteration of the loop of gen_for_module (lines 436-460) for a target
\* whose type is exe, library or dll: gen_for_target writes the project and
\* the filters file and returns the project.
GenNativeTarget ==
    /\ pc = "gen"
    /\ created[mi]
    /\ ti < Len(TargetsOf(mi))
    /\ \E type \in TargetTypes, deps \in DepLists :
         LET t == TargetsOf(mi)[ti + 1]
         IN  /\ IsNative(type)
             /\ Len(deps) <= MaxEdges - EdgesUsed
             /\ files' = files \cup {<<"vcxproj", t>>, <<"vcxproj.filters", t>>}
             /\ ValidateAndAdd(t, ProjectRecord(t, GuidOfProject(mi, t), <<"vcxproj", t>>, deps),
                               ProjectVersion(toolset))
    /\ UNCHANGED <<toolset, tree, owner, treeVars, typeVars,
                   created, subsolutions, parent_solution,
                   omit_from_tree, out, finalized, commits, generate_solution, closureVars>>

\* The same iteration for a target of another type whose TargetType implements
\* vs_project: gen_for_target returns None and writes nothing, vs_project
\* returns a project with a name, a version and dependencies of its own.
GenExternalTarget ==
    /\ pc = "gen"
    /\ created[mi]
    /\ ti < Len(TargetsOf(mi))
    /\ OthersUsed(mi, ti) < MaxOther
    /\ \E type \in TargetTypes, deps \in DepLists, n \in Targets, v \in ExternalVersions :
         LET t == TargetsOf(mi)[ti + 1]
         IN  /\ ~IsNative(type)
             /\ Len(deps) <= MaxEdges - EdgesUsed
             /\ ValidateAndAdd(t, ProjectRecord(n, GuidOfProject(mi, t), <<"vcxproj", t>>, deps),
                               v)
    /\ UNCHANGED <<toolset, tree, owner, treeVars, typeVars,
                   created, subsolutions, parent_solution,
                   omit_from_tree, out, finalized, commits, files, generate_solution,
                   closureVars>>

\* The same iteration for a target of another type whose TargetType raises
\* NotImplementedError: a warning, and the loop continues (lines 443-446).
SkipUnsupportedTarget ==
    /\ pc = "gen"
    /\ created[mi]
    /\ ti < Len(TargetsOf(mi))
    /\ OthersUsed(mi, ti) < MaxOther
    /\ \E type \in TargetTypes :
         LET t == TargetsOf(mi)[ti + 1]
         IN  /\ ~IsNative(type)
             /\ warnings' = Append(warnings, [w |-> "target type is not supported",
                                              target |-> t])
             /\ Goto(AfterTarget(mi, ti + 1))
    /\ UNCHANGED <<toolset, tree, owner, treeVars, typeVars,
                   prj_version, solutionVars, files, error, generate_solution,
                   closureVars>>

\* Variant: add_subsolution appends the solution and leaves its back-reference
AddSubsolution_NoBackReference ==
    /\ pc = "attach"
    /\ subsolutions' = [subsolutions EXCEPT ![mi] = Append(@, Submodules(mi)[ti + 1])]
    /\ Goto(AttachPos(mi, ti + 1))
    /\ UNCHANGED <<toolset, tree, owner, treeVars, typeVars,
                   prj_version, created, projects, guids_map, parent_solution,
                   omit_from_tree, out, finalized, commits, files, warnings, error,
                   generate_solution, closureVars>>

\* generate(), line 426: m.solution.add_subsolution(sub.solution), with
\* add_subsolution (lines 185-187)
AddSubsolution ==
    /\ pc = "attach"
    /\ LET sub == Submodules(mi)[ti + 1]
       IN  /\ subsolutions' = [subsolutions EXCEPT ![mi] = Append(@, sub)]
           /\ parent_solution' = [parent_solution EXCEPT ![sub] = mi]
    /\ Goto(AttachPos(mi, ti + 1))
    /\ UNCHANGED <<toolset, tree, owner, treeVars, typeVars,
                   prj_version, created, projects, guids_map, omit_from_tree,
                   out, finalized, commits, files, warnings, error, generate_solution,
                   closureVars>>

\* Variant: the loop test is "prev_count <= len(included)"
LoopContinues_LessEq(prev, inc) == prev <= Cardinality(inc)

\* The loop test of additional_deps() (line 230)
LoopContinues(prev, inc) == prev # Cardinality(inc)

\* The while loop of additional_deps() (lines 230-240) run to its end from the
\* given values of its locals: every list it can return, one for each order in
\* which the passes can iterate the set "todo"; ok is FALSE where it raises.
RECURSIVE ClosureRuns(_, _, _, _, _)
ClosureRuns(top, prev, inc, td, add) ==
    IF ~LoopContinues(prev, inc) THEN {[additional |-> add, ok |-> TRUE]}
    ELSE UNION {LET r == ClosurePassResult(top, inc, td, add, ord)
                IN  IF r.ok
                    THEN ClosureRuns(top, Cardinality(inc), r.included, r.todo, r.additional)
                    ELSE {[additional |-> r.additional, ok |-> FALSE]}
                : ord \in Orders(td \ inc)}

\* Variant: no additional project is ever returned
AdditionalDeps_None(s) == {[additional |-> <<>>, ok |-> TRUE]}

\* additional_deps() of solution s (lines 212-240)
AdditionalDeps(s) ==
    IF TopOf(s) = s THEN {[additional |-> <<>>, ok |-> TRUE]}
    ELSE ClosureRuns(TopOf(s), 0, ClosureIncluded(s), ClosureTodo(s), <<>>)

\* omit_from_tree after the folder loop of commit() ran over folders
OmitAssigned(folders) ==
    [m \in Modules |->
        IF \E i \in 1..Len(folders) : folders[i].id = m
        THEN IF OmitFromTree(SolutionFolder(m)) THEN "True" ELSE "False"
        ELSE omit_from_tree[m]]

\* Variant: the generate-solution property is read but the solution is
\* committed whatever its value
SkipCommit_Ignored ==
    /\ pc = "commit"
    /\ generate_solution' = [generate_solution EXCEPT ![mi] = "false"]
    /\ commits' = [commits EXCEPT ![mi] = @ + 1]
    /\ Goto(AfterCommit(mi))
    /\ UNCHANGED <<toolset, tree, owner, treeVars, typeVars,
                   prj_version, created, projects, guids_map, subsolutions,
                   parent_solution, omit_from_tree, out, finalized, files, warnings,
                   error, closureVars>>

\* generate(), line 428: the module opted out of solution generation
SkipCommit ==
    /\ pc = "commit"
    /\ generate_solution' = [generate_solution EXCEPT ![mi] = "false"]
    /\ Goto(AfterCommit(mi))
    /\ UNCHANGED <<toolset, tree, owner, treeVars, typeVars,
                   prj_version, solutionVars, files, warnings, error, closureVars>>

\* generate(), line 429: m.solution.commit() (lines 263-332)
Commit ==
    /\ pc = "commit"
    /\ generate_solution' = [generate_solution EXCEPT ![mi] = "true"]
    /\ commits' = [commits EXCEPT ![mi] = @ + 1]
    /\ \E deps \in AdditionalDeps(mi) :
         IF ~deps.ok
         THEN /\ Fail("TypeError")
              /\ UNCHANGED <<out, finalized, omit_from_tree>>
         ELSE LET r == CommitResult(mi, deps.additional)
              IN  /\ out' = [out EXCEPT ![mi] = @ \o r.lines]
                  /\ finalized' = [finalized EXCEPT ![mi] = @ \/ r.finalized]
                  /\ omit_from_tree' = OmitAssigned(r.folders)
                  /\ IF r.status = "ok"
                     THEN Goto(AfterCommit(mi)) /\ UNCHANGED error
                     ELSE Fail(r.status)
    /\ UNCHANGED <<toolset, tree, owner, treeVars, typeVars,
                   prj_version, created, projects, guids_map, subsolutions,
                   parent_solution, files, warnings, closureVars>>

Next ==
    \/ CreateSolution
    \/ GenNativeTarget
    \/ GenExternalTarget
    \/ SkipUnsupportedTarget
    \/ AddSubsolution
    \/ SkipCommit
    \/ Commit

Spec == Init /\ [][Next]_vars

\* ------------------------------------- the methods of an assembled tree
\* additional_deps() and _get_target_guid() read the solution tree and change
\* nothing.  ClosureSpec starts where the second loop of generate() ends, with
\* the tree assembled, calls one of them on any solution and follows the
\* fixpoint loop pass by pass.

\* Values of target["deps"] for all targets, within the bounds; a target outside
\* "present" was skipped as unsupported
InputDeps(present) ==
    {d \in [Targets -> DepLists] :
        /\ \A t \in Targets \ present : d[t] = <<>>
        /\ SumLens(d, Targets) <= MaxEdges}

SkipWarnings(present) ==
    [i \in 1..Len(SortedSeq(Targets \ present)) |->
        [w |-> "target type is not supported", target |-> SortedSeq(Targets \ present)[i]]]

InitAssembled ==
    /\ toolset = "vs2010"
    /\ tree \in {f \in [Modules -> 0..NMod] :
                    /\ f[1] = 0
                    /\ \A m \in Modules \ {1} : f[m] \in 1..(m - 1)}
    /\ owner \in {f \in [Targets -> Modules] :
                    \A t, u \in Targets : t <= u => f[t] <= f[u]}
    /\ \E present \in {S \in SUBSET Targets : Cardinality(Targets \ S) <= MaxOther} :
       \E d \in InputDeps(present) :
         /\ projects = [m \in Modules |->
                          LET ts == SortedSeq({t \in present : owner[t] = m})
                          IN  [i \in 1..Len(ts) |->
                                 ProjectRecord(ts[i], GuidOfProject(m, ts[i]),
                                               <<"vcxproj", ts[i]>>, d[ts[i]])]]
         /\ guids_map = [m \in Modules |->
                           [t \in {u \in present : owner[u] = m} |-> GuidOfProject(m, t)]]
         /\ files = {<<"vcxproj", t>> : t \in present}
                      \cup {<<"vcxproj.filters", t>> : t \in present}
         /\ prj_version = [t \in Targets |->
                             IF t \in present THEN ProjectVersion(toolset) ELSE 0]
         /\ warnings = SkipWarnings(present)
    /\ pc = "commit"
    /\ mi = 1
    /\ ti = 0
    /\ created = [m \in Modules |-> TRUE]
    /\ subsolutions = [m \in Modules |-> Submodules(m)]
    /\ parent_solution = tree
    /\ omit_from_tree = [m \in Modules |-> "unset"]
    /\ out = [m \in Modules |-> HeaderLines(toolset)]
    /\ finalized = [m \in Modules |-> FALSE]
    /\ commits = [m \in Modules |-> 0]
    /\ error = "none"
    /\ generate_solution = [m \in Modules |-> "unread"]
    /\ cpc = "idle"
    /\ cself = 0
    /\ included = {}
    /\ todo = {}
    /\ additional = <<>>
    /\ prev_count = 0
    /\ guid_call = <<0, 0, NoGuid>>
    /\ NoNodes
    /\ NoValue

generateVars == <<toolset, tree, owner, pc, mi, ti, solutionVars, files, prj_version, warnings,
                  error,
                  generate_solution>>

\* additional_deps() is called on solution s and runs to line 222 or line 229
CallAdditionalDeps ==
    /\ cpc = "idle"
    /\ \E s \in Modules :
         /\ cself' = s
         /\ additional' = <<>>
         /\ IF TopOf(s) = s
            THEN /\ cpc' = "returned"
                 /\ UNCHANGED <<included, todo, prev_count>>
            ELSE /\ cpc' = "closure"
                 /\ included' = ClosureIncluded(s)
                 /\ todo' = ClosureTodo(s)
                 /\ prev_count' = 0
    /\ UNCHANGED <<generateVars, treeVars, typeVars, guid_call>>

\* One pass of the while loop of additional_deps() (lines 230-239)
ClosurePass ==
    /\ cpc = "closure"
    /\ LoopContinues(prev_count, included)
    /\ \E ord \in Orders(todo \ included) :
         LET r == ClosurePassResult(TopOf(cself), included, todo, additional, ord)
         IN  /\ prev_count' = Cardinality(included)
             /\ included' = r.included
             /\ todo' = r.todo
             /\ additional' = r.additional
             /\ cpc' = IF r.ok THEN "closure" ELSE "TypeError"
    /\ UNCHANGED <<generateVars, treeVars, typeVars, cself, guid_call>>

\* The loop test fails and additional_deps() returns "additional" (line 240)
ClosureReturn ==
    /\ cpc = "closure"
    /\ ~LoopContinues(prev_count, included)
    /\ cpc' = "returned"
    /\ UNCHANGED <<generateVars, treeVars, typeVars, cself, included, todo, additional,
                   prev_count, guid_call>>

\* _get_target_guid(id) is called on solution s (lines 252-261)
CallGetTargetGuid ==
    /\ cpc = "idle"
    /\ \E s \in Modules, id \in Targets :
         /\ cself' = s
         /\ guid_call' = <<s, id, GetTargetGuid(s, id)>>
    /\ cpc' = "resolved"
    /\ UNCHANGED <<generateVars, treeVars, typeVars, included, todo, additional, prev_count>>

ClosureNext ==
    \/ CallAdditionalDeps
    \/ ClosurePass
    \/ ClosureReturn
    \/ CallGetTargetGuid

\* The loop is sequential code: while it has a pass to make, it makes it
ClosureSpec ==
    InitAssembled /\ [][ClosureNext]_vars /\ WF_vars(ClosurePass) /\ WF_vars(ClosureReturn)

\* ------------------------------------------------- building a Node tree
\* Node objects are constructed and filled through add(), then one of them is
\* serialized; generate() is not running.
NoRun ==
    /\ toolset = "vs2010"
    /\ tree = [m \in Modules |-> IF m = 1 THEN 0 ELSE 1]
    /\ owner = [t \in Targets |-> 1]
    /\ pc = "gen"
    /\ mi = 1
    /\ ti = 0
    /\ created = [m \in Modules |-> FALSE]
    /\ projects = [m \in Modules |-> <<>>]
    /\ guids_map = [m \in Modules |-> <<>>]
    /\ subsolutions = [m \in Modules |-> <<>>]
    /\ parent_solution = [m \in Modules |-> 0]
    /\ omit_from_tree = [m \in Modules |-> "unset"]
    /\ out = [m \in Modules |-> <<>>]
    /\ finalized = [m \in Modules |-> FALSE]
    /\ commits = [m \in Modules |-> 0]
    /\ files = {}
    /\ prj_version = [t \in Targets |-> 0]
    /\ warnings = <<>>
    /\ error = "none"
    /\ generate_solution = [m \in Modules |-> "unread"]
    /\ cpc = "idle"
    /\ cself = 0
    /\ guid_call = <<0, 0, NoGuid>>
    /\ included = {}
    /\ todo = {}
    /\ additional = <<>>
    /\ prev_count = 0

TreeInit == NoRun /\ NoNodes /\ NoValue

\* add() returned after appending a child
Appended ==
    /\ adds' = adds + 1
    /\ add_error' = FALSE

\* Node(name, text, **kwargs) (lines 41-46)
NewNode ==
    /\ xml = NoXml
    /\ Len(nodes) < MaxNodes
    /\ \E name \in Tags, text \in Texts, kwargs \in AttrSets :
         nodes' = Append(nodes, NewNodeObject(name, text, kwargs))
    /\ UNCHANGED <<generateVars, closureVars, typeVars, adds, add_error, xml>>

\* n[key] = value (lines 48-49)
SetItem ==
    /\ xml = NoXml
    /\ \E n \in 1..Len(nodes), key \in AttrKeys, val \in AttrValues :
         nodes' = [nodes EXCEPT ![n].attrs = SetAttr(@, key, val)]
    /\ UNCHANGED <<generateVars, closureVars, typeVars, adds, add_error, xml>>

\* n.add(Node) (lines 69-74): any node is appended, n itself and a node n is
\* below included
AddNode ==
    /\ xml = NoXml
    /\ adds < MaxAdds
    /\ \E p \in 1..Len(nodes), c \in 1..Len(nodes) :
         nodes' = [nodes EXCEPT ![p].children = Append(@, NodeChild(nodes[c].name, c))]
    /\ Appended
    /\ UNCHANGED <<generateVars, closureVars, typeVars, xml>>

\* n.add(tag, **kwargs) (lines 75-77): Node(tag, **kwargs) is constructed and
\* appended; text is one of the keywords Node.__init__ takes
AddTag ==
    /\ xml = NoXml
    /\ adds < MaxAdds
    /\ Len(nodes) < MaxNodes
    /\ \E p \in 1..Len(nodes), tag \in Tags, text \in Texts, kwargs \in AttrSets :
         nodes' = Append([nodes EXCEPT ![p].children =
                                           Append(@, NodeChild(tag, Len(nodes) + 1))],
                         NewNodeObject(tag, text, kwargs))
    /\ Appended
    /\ UNCHANGED <<generateVars, closureVars, typeVars, xml>>

\* n.add(tag, value) (lines 78-81)
AddLeaf ==
    /\ xml = NoXml
    /\ adds < MaxAdds
    /\ \E p \in 1..Len(nodes), tag \in Tags, val \in ScalarValues :
         nodes' = [nodes EXCEPT ![p].children = Append(@, LeafChild(tag, val))]
    /\ Appended
    /\ UNCHANGED <<generateVars, closureVars, typeVars, xml>>

\* n.add(...) with arguments of no accepted form ends at "assert 0" (line 82)
AddConfused ==
    /\ xml = NoXml
    /\ adds < MaxAdds
    /\ nodes # <<>>
    /\ adds' = adds + 1
    /\ add_error' = TRUE
    /\ UNCHANGED <<generateVars, closureVars, typeVars, nodes, xml>>

\* XmlFormatter.format(node) (lines 111-112)
Format ==
    /\ xml = NoXml
    /\ \E root \in 1..Len(nodes) : xml' = FormatTree(nodes, root)
    /\ UNCHANGED <<generateVars, closureVars, typeVars, nodes, adds, add_error>>

TreeNext ==
    \/ NewNode
    \/ SetItem
    \/ AddNode
    \/ AddTag
    \/ AddLeaf
    \/ AddConfused
    \/ Format

TreeSpec == TreeInit /\ [][TreeNext]_vars

\* ------------------------------------------ normalizing and validating
\* A value of the build model is normalized and validated against a type.
U(v) == LiteralExpr(v, TRUE)

Literals ==
    {U(<<>>), U(TrueChars), U(<<"x">>), U(<<"y">>), LiteralExpr(<<"x">>, FALSE),
     U(<<"a", "/", "b">>), U(<<"@", "s", "/", "a">>), U(<<"@", "x", "/", "a">>),
     U(<<"@", "s">>), U(<<"/">>)}

Paths == {PathExpr(<<U(<<"a">>)>>, DefaultAnchor), PathExpr(<<U(<<"a">>)>>, <<"@", "x">>),
          PathExpr(<<>>, <<"@", "b">>)}

Flat == Literals \cup Paths \cup {NullExpr, ReferenceExpr}

Lists == {ListExpr(<<>>)} \cup {ListExpr(<<a>>) : a \in Flat}
           \cup {ListExpr(<<U(<<"x">>), b>>) : b \in Flat}

Expressions == Flat \cup Lists \cup {ListExpr(<<l>>) : l \in Lists}

Types == {<<n>> : n \in TypeNames} \cup {<<"list", n>> : n \in TypeNames}
            \cup {<<"list", "list", n>> : n \in TypeNames}

AllowedLists == {<< <<"x">> >>, << <<"x">>, <<"y">> >>, << <<"y">>, TrueChars >>}

TypeInit ==
    /\ NoRun
    /\ NoNodes
    /\ vtype \in Types
    /\ allowed \in AllowedLists
    /\ value \in Expressions
    /\ prev_value = NullExpr
    /\ passes = 0
    /\ verdict = NotValidated
    /\ prev_verdict = NotValidated

\* value = T.normalize(value)
NormalizeValue ==
    /\ passes < MaxPasses
    /\ prev_value' = value
    /\ prev_verdict' = verdict
    /\ value' = Normalize(vtype, value)
    /\ verdict' = NotValidated
    /\ passes' = passes + 1
    /\ UNCHANGED <<generateVars, closureVars, treeVars, vtype, allowed>>

\* T.validate(value)
ValidateValue ==
    /\ verdict = NotValidated
    /\ verdict' = Validate(vtype, allowed, value)
    /\ UNCHANGED <<generateVars, closureVars, treeVars, vtype, allowed, value, prev_value,
                   passes,                   prev_verdict>>

TypeNext ==
    \/ NormalizeValue
    \/ ValidateValue

TypeSpec == TypeInit /\ [][TypeNext]_vars

\* =================================================================== claims
\* Vocabulary of the claims, defined from the parent links and the project
\* lists alone (not from the traversals the code uses).

\* s is nested in a (at any depth), or is a itself
RECURSIVE IsUnder(_, _)
IsUnder(s, a) ==
    \/ s = a
    \/ parent_solution[s] # 0 /\ IsUnder(parent_solution[s], a)

\* Project records held by the solutions of the tree rooted at a
RecordsUnder(a) == UNION {Range(projects[m]) : m \in {x \in Modules : IsUnder(x, a)}}
NamesUnder(a) == {r.name : r \in RecordsUnder(a)}

\* The top-most ancestor of s: the solution above s that has no parent
Root(s) == CHOOSE a \in Modules : IsUnder(s, a) /\ parent_solution[a] = 0

\* D: names the project called n declares as dependencies
DeclaredDeps(s, n) == UNION {Range(r.deps) : r \in {x \in RecordsUnder(Root(s)) : x.name = n}}

\* Every name in D is the name of a project of the tree of s's top-most ancestor
DepsLocatable(s) ==
    \A r \in RecordsUnder(Root(s)) : Range(r.deps) \subseteq NamesUnder(Root(s))

\* transitive_closure(D, P): the names reachable from P along D
RECURSIVE TransitiveClosure(_, _)
TransitiveClosure(s, P) ==
    LET step == P \cup UNION {DeclaredDeps(s, n) : n \in P}
    IN  IF step = P THEN P ELSE TransitiveClosure(s, step)


\* C1: when additional_deps(S) returns, with every declared dependency locatable
\* in the tree of S's top-most ancestor, the returned list holds exactly the
\* project records named by transitive_closure(D, P) minus P, where P are the
\* names of the projects of S and of its nested solutions: each such record once,
\* and no record of P.
C1_ClosureExact ==
    (cpc = "returned" /\ DepsLocatable(cself)) =>
        LET P == NamesUnder(cself)
        IN  /\ {additional[i].name : i \in 1..Len(additional)}
                 = TransitiveClosure(cself, P) \ P
            /\ \A i, j \in 1..Len(additional) :
                 additional[i].name = additional[j].name => i = j
            /\ \A i \in 1..Len(additional) :
                 /\ additional[i] \in RecordsUnder(Root(cself))
                 /\ additional[i] \notin RecordsUnder(cself)

\* Witness of C1: additional_deps returned two projects for a nested solution, the
\* second of them reached only through the first (found in a second pass).
C1_Witness ==
    /\ cpc = "returned"
    /\ DepsLocatable(cself)
    /\ Len(additional) = 2
    /\ additional[2].name \notin UNION {Range(r.deps) : r \in RecordsUnder(cself)}
    /\ additional[2].name \in Range(additional[1].deps)

\* C2: additional_deps(S) terminates when every declared dependency is locatable,
\* cycles included: a call that is in the fixpoint loop eventually returns, every
\* pass after which the loop goes on has added a name to "included", and a pass
\* that adds no name is the last one.
C2_ClosureTerminates ==
    /\ (cpc = "closure" /\ DepsLocatable(cself)) ~> (cpc = "returned")
    /\ [][(cpc = "closure" /\ cpc' = "closure")
            => /\ included \subseteq included'
               /\ (included' = included => ~LoopContinues(prev_count', included'))
               /\ (LoopContinues(prev_count', included')
                     => Cardinality(included') > Cardinality(included))]_vars

\* Witness of C2: the call returned after the loop ran over a dependency graph
\* with a cycle through one of S's own projects.
C2_Witness ==
    /\ cpc = "returned"
    /\ DepsLocatable(cself)
    /\ additional # <<>>
    /\ \E r \in RecordsUnder(cself) : \E i \in 1..Len(additional) :
         /\ additional[i].name \in Range(r.deps)
         /\ r.name \in Range(additional[i].deps)

\* Solutions that registered id with add_project, in the tree of s's top-most ancestor
Registering(s, id) ==
    {m \in Modules : IsUnder(m, Root(s)) /\ \E r \in Range(projects[m]) : r.name = id}

\* C8: _get_target_guid(id) on solution S returns S's own lookup entry when id
\* is a direct project of S; otherwise the GUID registered for id by a solution
\* of the tree of S's top-most ancestor when there is one; and fails its
\* assertion when id is registered nowhere in that tree.
C8_GuidResolution ==
    cpc = "resolved" =>
        LET s == guid_call[1]
            id == guid_call[2]
            g == guid_call[3]
        IN  /\ s \in Registering(s, id) => g = guids_map[s][id]
            /\ (s \notin Registering(s, id) /\ Registering(s, id) # {})
                  => \E m \in Registering(s, id) :
                        \E r \in Range(projects[m]) : r.name = id /\ g = r.guid
            /\ Registering(s, id) = {} => g = AssertionFailed

\* Witness of C8: a nested solution resolved a project registered by a solution
\* that is neither itself nor its top-most ancestor.
C8_Witness ==
    /\ cpc = "resolved"
    /\ parent_solution[guid_call[1]] # 0
    /\ guid_call[1] \notin Registering(guid_call[1], guid_call[2])
    /\ Registering(guid_call[1], guid_call[2]) # {}
    /\ Root(guid_call[1]) \notin Registering(guid_call[1], guid_call[2])
    /\ guid_call[3] = GuidOfProject(owner[guid_call[2]], guid_call[2])

\* -------------------------------------------- claims about generate() runs
\* commit() was invoked on solution m and has returned
CommitReturned(m) ==
    /\ commits[m] > 0
    /\ ~(pc = "failed" /\ mi = m)

Lines(m, k) == {i \in 1..Len(out[m]) : out[m][i].k = k}

\* Target t was skipped with the unsupported-type warning
Skipped(t) ==
    \E i \in 1..Len(warnings) :
        warnings[i].w = "target type is not supported" /\ warnings[i].target = t

\* A project made from target t is held by solution m
HoldsProjectOf(m, t) == \E r \in Range(projects[m]) : r.guid = GuidOfProject(owner[t], t)

\* C3: in the output of commit() of a solution, a nested solution at any depth
\* below it that holds exactly one project and no sub-solution has no folder
\* entry, its GUID is in no line of the nesting map, as child or as parent, and
\* the nesting line of its single project names the GUID of its parent.
C3_FoldRule ==
    \A c \in Modules, f \in Modules :
        (finalized[c] /\ f # c /\ IsUnder(f, c)
           /\ Len(projects[f]) = 1 /\ subsolutions[f] = <<>>) =>
            LET g == GuidOfSolution(f)
                pg == projects[f][1].guid
                up == GuidOfSolution(parent_solution[f])
            IN  /\ \A i \in Lines(c, "Folder") : out[c][i].guid # g
                /\ \A i \in Lines(c, "Nested") : out[c][i].guid # g /\ out[c][i].parent # g
                /\ \E i \in Lines(c, "Nested") : out[c][i].guid = pg
                /\ \A i \in Lines(c, "Nested") : out[c][i].guid = pg => out[c][i].parent = up

\* The line of out[m] that opens the project entry line i belongs to (0: none)
EntryOf(m, i) ==
    LET before == {j \in 1..i : out[m][j].k \in {"Project", "Folder"}}
    IN  IF before = {} THEN 0 ELSE CHOOSE j \in before : \A h \in before : h <= j

\* C4: when target X of module M declares a dependency on target Y generated in
\* a sibling module N, the committed solution of M holds a project entry for Y
\* with the GUID add_project registered for Y, a folder entry named "Additional
\* Dependencies" with a nesting line that places Y under it, and under X's
\* project entry a ProjectDependencies line with Y's GUID.
C4_AdditionalDependencies ==
    \A M \in Modules, N \in Modules :
        (CommitReturned(M) /\ N # M /\ tree[M] # 0 /\ tree[N] = tree[M]) =>
            \A x \in Range(projects[M]) : \A Y \in Range(x.deps) :
                Y \in DOMAIN guids_map[N] =>
                    LET gy == guids_map[N][Y]
                    IN  /\ \E i \in Lines(M, "Project") :
                              out[M][i].name = <<"target", Y>> /\ out[M][i].guid = gy
                        /\ \E i \in Lines(M, "Folder") :
                              /\ out[M][i].name = <<"Additional Dependencies", 0>>
                              /\ \E j \in Lines(M, "Nested") :
                                    /\ out[M][j].guid = gy
                                    /\ out[M][j].parent = out[M][i].guid
                        /\ \E i \in Lines(M, "Dep") :
                              /\ out[M][i].guid = gy
                              /\ EntryOf(M, i) # 0
                              /\ out[M][EntryOf(M, i)].k = "Project"
                              /\ out[M][EntryOf(M, i)].guid = x.guid
                              /\ \E j \in (EntryOf(M, i) + 1)..(i - 1) :
                                    out[M][j].k = "ProjectSection(ProjectDependencies)"

\* Witness of C4: a committed module with a project that depends on a project of
\* a sibling module.
C4_Witness ==
    \E M \in Modules, N \in Modules :
        /\ CommitReturned(M) /\ N # M /\ tree[M] # 0 /\ tree[N] = tree[M]
        /\ \E x \in Range(projects[M]) : \E Y \in Range(x.deps) : Y \in DOMAIN guids_map[N]

\* C5: commit() finalizes the solution file exactly when it wrote at least one
\* project entry; a solution with no project to list gets no file, and no
\* folder, global or nesting section is written for it.
C5_EmptySolutionNotWritten ==
    \A m \in Modules :
        /\ finalized[m] => (commits[m] > 0 /\ Lines(m, "Project") # {})
        /\ (CommitReturned(m) /\ Lines(m, "Project") # {}) => finalized[m]
        /\ (CommitReturned(m) /\ RecordsUnder(m) = {}) =>
              (~finalized[m] /\ out[m] = HeaderLines(toolset))
        /\ ~finalized[m] =>
              Lines(m, "Folder") \cup Lines(m, "Global") \cup Lines(m, "EndGlobal")
                \cup Lines(m, "GlobalSection(NestedProjects)") = {}

\* Witness of C5: commit() returned for a module without any project and wrote
\* no file, while another solution of the run was written.
C5_Witness ==
    \E m \in Modules, n \in Modules :
        /\ CommitReturned(m) /\ RecordsUnder(m) = {} /\ ~finalized[m]
        /\ finalized[n]

\* Target generation of module m is finished: its solution exists and each of
\* its targets has become a project of the solution or was skipped with a warning
GenerationFinished(m) ==
    /\ created[m]
    /\ \A t \in Range(TargetsOf(m)) : HoldsProjectOf(m, t) \/ Skipped(t)

\* Something was generated for target t
GenerationStarted(t) ==
    \/ \E f \in files : f[2] = t
    \/ \E i \in 1..Len(warnings) : warnings[i].target = t
    \/ \E m \in Modules : HoldsProjectOf(m, t)

SomeAttached == \E m \in Modules : subsolutions[m] # <<>> \/ parent_solution[m] # 0
SomeCommitted == \E m \in Modules : commits[m] > 0

\* C6: the three passes of generate() are strictly ordered: a module's Solution
\* exists before anything is generated for one of its targets; no solution is
\* attached before every module has finished target generation; no commit
\* happens before every nested solution is attached; and once a commit has
\* happened no project is added and no solution attached.
C6_PassesOrdered ==
    /\ [](/\ \A t \in Targets : GenerationStarted(t) => created[owner[t]]
          /\ SomeAttached => \A m \in Modules : GenerationFinished(m)
          /\ SomeCommitted => \A m \in Modules :
                                 /\ subsolutions[m] = Submodules(m)
                                 /\ parent_solution[m] = tree[m])
    /\ [][SomeCommitted => /\ projects' = projects
                           /\ guids_map' = guids_map
                           /\ subsolutions' = subsolutions
                           /\ parent_solution' = parent_solution]_vars

\* Witness of C6: a finished run that generated a project in every module,
\* attached two nested solutions and committed three solutions.
C6_Witness ==
    /\ pc = "done"
    /\ \A m \in Modules : projects[m] # <<>> /\ commits[m] = 1
    /\ \E m \in Modules : parent_solution[m] # 0 /\ subsolutions[m] # <<>>

\* C7: commit() is never invoked on the solution of a module that opted out, at
\* most once on any solution, and in a run that completes exactly once on the
\* solution of every module that did not opt out.
C7_CommitOncePerModule ==
    \A m \in Modules :
        /\ commits[m] <= 1
        /\ generate_solution[m] = "false" => commits[m] = 0
        /\ pc = "done" => /\ generate_solution[m] \in {"true", "false"}
                          /\ generate_solution[m] = "true" => commits[m] = 1

\* Witness of C7: a finished run in which a nested module opted out below a
\* committed parent, and another nested module was committed.
C7_Witness ==
    /\ pc = "done"
    /\ \E m \in Modules, n \in Modules :
         /\ parent_solution[m] # 0 /\ generate_solution[m] = "false" /\ commits[m] = 0
         /\ commits[parent_solution[m]] = 1
         /\ parent_solution[n] # 0 /\ commits[n] = 1

FatalErrors == {"Error: project name differs from target name",
                "Error: project will not work with this version"}

\* C9: with a target of an unsupported type and no fallback in the model,
\* generate() still runs to completion (only a fatal Error of the validation
\* gate stops it), the target gets a warning, no project or filters file, and
\* no place in any solution, every other target is generated and every
\* solution that did not opt out is committed.
C9_UnsupportedTargetSkipped ==
    \A t \in Targets :
        Skipped(t) =>
            /\ \A f \in files : f[2] # t
            /\ \A m \in Modules : \A r \in Range(projects[m]) : r.name # t
            /\ pc = "failed" => error \in FatalErrors
            /\ pc = "done" =>
                 /\ \A u \in Targets \ {t} : HoldsProjectOf(owner[u], u) \/ Skipped(u)
                 /\ \A m \in Modules : generate_solution[m] = "true" => CommitReturned(m)

\* C10: every project record held by a module's solution has the name of the
\* target of that module it was generated from, and the run that met a project
\* whose name differs from its target's stopped with a fatal error without
\* adding it.
C10_ProjectNamedAsTarget ==
    /\ \A m \in Modules : \A r \in Range(projects[m]) :
         /\ r.name \in Range(TargetsOf(m))
         /\ r.guid = GuidOfProject(m, r.name)
    /\ error = "Error: project name differs from target name" =>
         /\ pc = "failed"
         /\ ~HoldsProjectOf(mi, TargetsOf(mi)[ti + 1])
         /\ Len(projects[mi]) = ti - Cardinality({t \in Range(TargetsOf(mi)) : Skipped(t)})

\* Witness of C10: the run stopped on a project whose name differs from its
\* target's, after it added the project of an earlier target of the same module.
C10_Witness ==
    /\ error = "Error: project name differs from target name"
    /\ projects[mi] # <<>>

\* Warnings emitted for target t
WarningsOf(t) == {i \in 1..Len(warnings) : warnings[i].target = t}

\* The target the loop of gen_for_module stands at
CurrentTarget == TargetsOf(mi)[ti + 1]

\* Target t got a project whose name passed the name check
NameMatched(t) ==
    /\ prj_version[t] # 0
    /\ ~(error = "Error: project name differs from target name" /\ t = CurrentTarget)

HighestSupported == ProjVersions(toolset)[Len(ProjVersions(toolset))]

\* C11: a generated project whose name matches its target is added with no
\* diagnostic when its version is supported by the toolset; is not added and
\* ends the run with a fatal error when its version is unsupported and above
\* the highest supported one; is added with exactly one warning when its
\* version is unsupported and lower.
C11_VersionGate ==
    \A t \in Targets :
        NameMatched(t) =>
            /\ prj_version[t] \in Range(ProjVersions(toolset)) =>
                 /\ HoldsProjectOf(owner[t], t)
                 /\ WarningsOf(t) = {}
                 /\ ~(pc = "failed" /\ error \in FatalErrors /\ t = CurrentTarget)
            /\ (prj_version[t] \notin Range(ProjVersions(toolset))
                  /\ prj_version[t] > HighestSupported) =>
                 /\ pc = "failed" /\ t = CurrentTarget
                 /\ error = "Error: project will not work with this version"
                 /\ ~HoldsProjectOf(owner[t], t)
            /\ (prj_version[t] \notin Range(ProjVersions(toolset))
                  /\ prj_version[t] < HighestSupported) =>
                 /\ HoldsProjectOf(owner[t], t)
                 /\ Cardinality(WarningsOf(t)) = 1
                 /\ \A i \in WarningsOf(t) : warnings[i].w = "will be converted when built"
                 /\ ~(pc = "failed" /\ error \in FatalErrors /\ t = CurrentTarget)

\* Witness of C11: a finished run that added a project of the older version 9
\* with a warning and a project of a supported version.
C11_Witness ==
    /\ pc = "done"
    /\ \E t \in Targets :
         /\ prj_version[t] = 9
         /\ HoldsProjectOf(owner[t], t)
         /\ WarningsOf(t) # {}
    /\ \E u \in Targets : prj_version[u] \in Range(ProjVersions(toolset))
                          /\ HoldsProjectOf(owner[u], u)

\* Targets the loops of gen_for_module have not reached yet
NotReached == {t \in Targets : t \notin Processed(mi, ti)} \ {CurrentTarget}

\* C12: a fatal error raised while generating a target stops the run there: no
\* later target or module is generated, no solution is attached or committed
\* and the state never changes again, while the files of earlier targets stay
\* written; a step that emits a warning never stops the run.
C12_FatalStopsRun ==
    /\ [](error \in FatalErrors =>
            /\ pc = "failed"
            /\ \A t \in NotReached :
                 /\ prj_version[t] = 0
                 /\ \A f \in files : f[2] # t
                 /\ WarningsOf(t) = {}
            /\ \A m \in Modules :
                 /\ m > mi => ~created[m]
                 /\ subsolutions[m] = <<>> /\ parent_solution[m] = 0
                 /\ commits[m] = 0 /\ ~finalized[m]
                 /\ generate_solution[m] = "unread"
            /\ \A f \in files : f[2] \in Processed(mi, ti))
    /\ [][(error \in FatalErrors => UNCHANGED vars)
          /\ files \subseteq files'
          /\ (Len(warnings') > Len(warnings) => pc' # "failed" /\ error' = "none")]_vars

\* Witness of C12: the run stopped on a fatal error after it wrote the files of
\* an earlier target, with a module still not generated.
C12_Witness ==
    /\ pc = "failed"
    /\ error \in FatalErrors
    /\ files # {}
    /\ \E m \in Modules : ~created[m]

\* ------------------------------------------ claims about the Node tree
\* The scalar children below node n whose formatted and escaped value is not
\* empty, as <<tag, value>>, parents before children and in insertion order
RECURSIVE NonEmptyLeaves(_, _)
NonEmptyLeaves(ns, n) ==
    ConcatAll([i \in 1..Len(ns[n].children) |->
                 LET c == ns[n].children[i]
                 IN  IF c.isNode THEN NonEmptyLeaves(ns, c.node)
                     ELSE IF Escape(FormatValue(c.value)) = <<>> THEN <<>>
                     ELSE << <<c.tag, Escape(FormatValue(c.value))>> >>], 1)

\* The <tag>value</tag> lines of the last format() call, as <<tag, value>>
WrittenLeaves ==
    LET ls == SelectSeq(xml.lines, LAMBDA l : l.form = "leaf")
    IN  [i \in 1..Len(ls) |-> <<ls[i].name, ls[i].text>>]

\* C13: the serializer writes no element for a scalar child whose formatted
\* and escaped value is empty, and exactly one <tag>value</tag> line for every
\* scalar child whose value is not empty, in the order the children were added.
C13_EmptyLeafOmitted ==
    xml.status = "ok" =>
        /\ WrittenLeaves = NonEmptyLeaves(nodes, xml.root)
        /\ \A i \in 1..Len(xml.lines) :
             xml.lines[i].form = "leaf" => xml.lines[i].text # <<>>

\* Witness of C13: a serialized node with three scalar children, an empty one
\* between two that are written.
C13_Witness ==
    /\ xml.status = "ok"
    /\ Len(nodes[xml.root].children) = 3
    /\ \A i \in 1..3 : ~nodes[xml.root].children[i].isNode
    /\ FormatValue(nodes[xml.root].children[2].value) = <<>>
    /\ Len(WrittenLeaves) = 2
    /\ WrittenLeaves[1] # WrittenLeaves[2]

\* C19: whatever Node and add() calls were made, no node carries both a text
\* and children, and format() never fails its assertion.
C19_TextExcludesChildren ==
    /\ \A n \in 1..Len(nodes) : ~(nodes[n].text.some /\ HasChildren(nodes[n]))
    /\ xml.status # "AssertionError"

\* ------------------------------------------------ claims about vartypes
\* C14: validate of an enum type with allowed values A accepts a literal
\* exactly when its value is in A; it rejects every other literal with a
\* TypeError whose message lists A, and every non-literal with a TypeError.
C14_EnumValidate ==
    (vtype = <<"enum">> /\ verdict # NotValidated) =>
        /\ value.kind = "LiteralExpr" =>
             /\ verdict.status = "ok" <=> value.value \in Range(allowed)
             /\ value.value \notin Range(allowed) =>
                  /\ verdict.status = "TypeError"
                  /\ verdict.msg.values = allowed
        /\ value.kind # "LiteralExpr" => verdict.status = "TypeError"

\* C15: when validate succeeds on normalize(v), normalizing once more returns
\* an expression equal to normalize(v), and validate succeeds on it too.
C15_NormalizeFixpoint ==
    (passes >= 2 /\ prev_verdict.status = "ok") =>
        /\ value = prev_value
        /\ verdict # NotValidated => verdict.status = "ok"

\* Witness of C15: a list of lists of paths, normalized twice and valid both
\* times.
C15_Witness ==
    /\ passes = 2
    /\ prev_verdict.status = "ok"
    /\ verdict.status = "ok"
    /\ vtype = <<"list", "list", "path">>
    /\ value.items # <<>>
    /\ value.items[1].items # <<>>
    /\ value.items[1].items[1].kind = "PathExpr"

\* ---------------------------------- claims about the committed solution file
\* Project entries of the file of m that come from the additional-dependency
\* closure: their project is held by no solution of the tree of m
AdditionalEntries(m) ==
    {i \in Lines(m, "Project") : out[m][i].guid \notin {r.guid : r \in RecordsUnder(m)}}

\* Folder entries of the synthetic grouping in the file of m
ExtrasEntries(m) ==
    {i \in Lines(m, "Folder") : out[m][i].name = <<"Additional Dependencies", 0>>}

\* Nesting lines of the file of m that place the project of entry i
NestingOf(m, i) == {j \in Lines(m, "Nested") : out[m][j].guid = out[m][i].guid}

\* C16 as stated: a non-empty additional-dependency closure is presented as one
\* "Additional Dependencies" grouping that follows the fold rule: with a single
\* project it gets no folder entry and no nesting line names it as parent; with
\* more it gets exactly one folder entry with every additional project under it.
C16_ExtrasFoldedLikeSolutions ==
    \A m \in Modules :
        (finalized[m] /\ AdditionalEntries(m) # {}) =>
            IF Cardinality(AdditionalEntries(m)) <= 1
            THEN /\ ExtrasEntries(m) = {}
                 /\ \A j \in Lines(m, "Nested") : out[m][j].parent # GuidOfExtras(m)
            ELSE /\ Cardinality(ExtrasEntries(m)) = 1
                 /\ \A i \in AdditionalEntries(m) :
                      \E j \in NestingOf(m, i) : out[m][j].parent = GuidOfExtras(m)

\* C16, amended: a non-empty additional-dependency closure is presented as
\* exactly one "Additional Dependencies" folder entry however few projects it
\* holds (the grouping has no parent solution and is never folded), every
\* additional project has exactly one nesting line, which places it under that
\* folder; an empty closure gives no such folder entry.
C16_ExtrasNeverFolded ==
    \A m \in Modules :
        finalized[m] =>
            /\ AdditionalEntries(m) = {} => ExtrasEntries(m) = {}
            /\ AdditionalEntries(m) # {} =>
                 /\ Cardinality(ExtrasEntries(m)) = 1
                 /\ \A i \in ExtrasEntries(m) : out[m][i].guid = GuidOfExtras(m)
                 /\ \A i \in AdditionalEntries(m) :
                      /\ Cardinality(NestingOf(m, i)) = 1
                      /\ \A j \in NestingOf(m, i) : out[m][j].parent = GuidOfExtras(m)

\* Witness of C16: a written solution file whose closure holds a single project,
\* and another whose closure holds two.
C16_Witness ==
    /\ \E m \in Modules : finalized[m] /\ Cardinality(AdditionalEntries(m)) = 1
    /\ \E n \in Modules : finalized[n] /\ Cardinality(AdditionalEntries(n)) = 2

\* C17: in every written solution file each line of the nesting map names as
\* parent the GUID of a folder entry written earlier in the file, never the
\* committed solution's own GUID, and as child the GUID of a project entry or
\* of a folder entry of the file.
C17_NestingMapCoversEntries ==
    \A c \in Modules :
        finalized[c] =>
            \A i \in Lines(c, "Nested") :
                /\ \E j \in Lines(c, "Folder") : j < i /\ out[c][j].guid = out[c][i].parent
                /\ out[c][i].parent # GuidOfSolution(c)
                /\ \E j \in Lines(c, "Project") \cup Lines(c, "Folder") :
                     out[c][j].guid = out[c][i].guid

\* C20: a solution file commit() has written is closed under dependencies:
\* every GUID listed in a ProjectDependencies section is the GUID of a project
\* entry of the same file, and no project has two entries in it.
C20_ClosedUnderDependencies ==
    \A m \in Modules :
        (finalized[m] /\ CommitReturned(m)) =>
            /\ \A i \in Lines(m, "Dep") :
                 \E j \in Lines(m, "Project") : out[m][j].guid = out[m][i].guid
            /\ \A i, j \in Lines(m, "Project") :
                 i # j => /\ out[m][i].guid # out[m][j].guid
                          /\ out[m][i].name # out[m][j].name

\* Witness of C20: a written file with a dependency line on a project that
\* comes from the closure and a dependency line on a project of its own tree.
C20_Witness ==
    \E m \in Modules :
        /\ finalized[m] /\ CommitReturned(m)
        /\ \E i \in Lines(m, "Dep") : out[m][i].guid \notin {r.guid : r \in RecordsUnder(m)}
        /\ \E i \in Lines(m, "Dep") : out[m][i].guid \in {r.guid : r \in RecordsUnder(m)}

\* ------------------------------------- claims about the order of the closure
\* The names of seq in order, each at its first occurrence only
RECURSIVE FirstOccurrences(_, _)
FirstOccurrences(seq, seen) ==
    IF seq = <<>> THEN <<>>
    ELSE IF Head(seq) \in seen THEN FirstOccurrences(Tail(seq), seen)
    ELSE <<Head(seq)>> \o FirstOccurrences(Tail(seq), seen \cup {Head(seq)})

\* The dependencies declared by the records of recs, in the order of recs and
\* of their declaration
DepsInOrder(recs) == ConcatAll([i \in 1..Len(recs) |-> recs[i].deps], 1)

\* Names in discovery order: the candidates cand not yet in inc, in the order
\* they were met, then what their own dependencies discover, pass after pass
RECURSIVE DiscoveryOrder(_, _, _)
DiscoveryOrder(top, inc, cand) ==
    LET new == FirstOccurrences(cand, inc)
    IN  IF new = <<>> THEN <<>>
        ELSE new \o DiscoveryOrder(top, inc \cup Range(new),
                                   DepsInOrder([i \in 1..Len(new) |->
                                                  GetProjectInfo(top, new[i])]))

\* C18: the list additional_deps returns is in discovery order: the projects of
\* an earlier pass before those of a later pass, and within a pass in the order
\* in which the dependencies were met, so the solution tree alone fixes it.
C18_DiscoveryOrder ==
    (cpc = "returned" /\ TopOf(cself) # cself) =>
        [i \in 1..Len(additional) |-> additional[i].name]
            = DiscoveryOrder(TopOf(cself), ClosureIncluded(cself),
                             DepsInOrder(AllProjects(cself)))

\* ------------------------------------------ claims about the solution tree
\* The attachment pass of generate() (lines 422-425) is over
AttachmentDone == pc \in {"commit", "done"} \/ SomeCommitted

\* Number of places solution s takes in the subsolutions list of p
PlacesIn(s, p) == Cardinality({i \in 1..Len(subsolutions[p]) : subsolutions[p][i] = s})

\* Where the walk "while top.parent_solution: top = top.parent_solution" from s
\* stands after at most n steps
RECURSIVE WalkUp(_, _)
WalkUp(s, n) ==
    IF parent_solution[s] = 0 \/ n = 0 THEN s ELSE WalkUp(parent_solution[s], n - 1)

\* C21: after the attachment pass the solutions form a forest: s.parent_solution
\* is p exactly when s occurs in p.subsolutions, a solution occurs in at most
\* one subsolutions list and at most once in it, and every upward walk along
\* parent_solution ends at a solution without a parent before it visits a
\* solution twice.
C21_SolutionForest ==
    AttachmentDone =>
        /\ \A s \in Modules, p \in Modules :
             parent_solution[s] = p <=> PlacesIn(s, p) > 0
        /\ \A s \in Modules : SumLens([p \in Modules |->
                                         SelectSeq(subsolutions[p], LAMBDA x : x = s)],
                                      Modules) <= 1
        /\ \A s \in Modules : parent_solution[WalkUp(s, NMod - 1)] = 0

\* Witness of C21: a finished run whose tree has a solution nested two deep, so
\* that the upward walk from it takes two steps.
C21_Witness ==
    /\ pc = "done"
    /\ \E s \in Modules :
         /\ parent_solution[s] # 0
         /\ parent_solution[parent_solution[s]] # 0
         /\ WalkUp(s, NMod - 1) # parent_solution[s]

====
